---- MODULE Spec2Model ----
(***************************************************************************)
(* Drivers of the PGM_DDPM_and_SM repository (src/main.py) and the parts   *)
(* of the U-Net they rely on (src/unet/UNet.py, src/unet/UNet_conditional  *)
(* .py), as one state machine.  A run executes one program, chosen with    *)
(* its arguments in Init: `prog` names the function, `args` holds its      *)
(* arguments, `loc` its local variables, `pc` its position, and `calls`    *)
(* records, in order, the calls it makes on the process object and the     *)
(* optimizer.  A value that flows between calls is a handle: 0 is the      *)
(* function's own input (images, batch, the initial randn sample), -1 the  *)
(* randn noise of a training batch, -2 the labels, and k >= 1 the value    *)
(* returned by calls[k].                                                   *)
(***************************************************************************)
EXTENDS Integers, Sequences, FiniteSets, TLC

VARIABLES prog, args, loc, pc, calls

vars == <<prog, args, loc, pc, calls>>

\* ---------------------------------------------------------------- bounds
MaxT == 3
MaxBatch == 2
MaxEpochs == 2
MaxBatches == 2
MaxImages == 6
MaxN == 5
MaxD == 2
MaxSteps == 2
MaxClasses == 2
ImgLen == 3
MaxPix == 3
MaxAnneal == 3
MaxCalls == 2

\* ------------------------------------------------------- python helpers
\* list(range(a, b))
range(a, b) ==
    IF a >= b THEN <<>> ELSE [k \in 1..(b - a) |-> a + k - 1]

\* s[::-1]
reversed(s) ==
    [k \in 1..Len(s) |-> s[Len(s) + 1 - k]]

\* (torch.ones(sample_size, 1) * t).long(): one copy of t per sample
time_tensor(sample_size, t) ==
    [k \in 1..sample_size |-> t]

\* one recorded call: the callee, its timestep tensor, the handles it reads
Call(fn, t, in) ==
    [fn |-> fn, t |-> t, in |-> in]

\* ------------------------------------------------- generate_image_cold
Init_generate_image_cold ==
    /\ prog = "generate_image_cold"
    /\ \E T \in 1..MaxT, n \in 1..MaxBatch, a \in 1..3 :
          args = [num_timesteps |-> T, sample_size |-> n, algoindex |-> a]
    /\ loc = [blured |-> 0, timesteps |-> <<>>, i |-> 0, frames |-> <<>>]
    /\ pc = "start"
    /\ calls = <<>>

\* the descending list the restore loop walks
cold_timesteps(T) ==
    reversed(range(1, T))

\* lines 190-193: degrade the images to depth num_timesteps, build the list
generate_image_cold_start ==
    /\ prog = "generate_image_cold" /\ pc = "start"
    /\ calls' = Append(calls, Call("forward_process",
                       time_tensor(args.sample_size, args.num_timesteps), <<0>>))
    /\ loc' = [loc EXCEPT !.blured = Len(calls) + 1,
                          !.timesteps = cold_timesteps(args.num_timesteps),
                          !.i = 1]
    /\ pc' = "loop"
    /\ UNCHANGED <<prog, args>>

\* mutant: `if algoindex == 1: ... else: ...`, any other value runs algo2
cold_restore_calls_else(algoindex, blured, tt) ==
    IF algoindex = 1
    THEN <<Call("restore_step_algo1", tt, <<blured>>)>>
    ELSE <<Call("restore_step_algo2", tt, <<blured>>)>>

\* lines 198-201: the two independent `if algoindex == k` statements
cold_restore_calls(algoindex, blured, tt) ==
    (IF algoindex = 1 THEN <<Call("restore_step_algo1", tt, <<blured>>)>> ELSE <<>>)
    \o (IF algoindex = 2 THEN <<Call("restore_step_algo2", tt, <<blured>>)>> ELSE <<>>)

\* lines 195-204: one iteration of the loop over timesteps
generate_image_cold_iter ==
    /\ prog = "generate_image_cold" /\ pc = "loop"
    /\ loc.i <= Len(loc.timesteps)
    /\ LET t == loc.timesteps[loc.i]
           tt == time_tensor(args.sample_size, t)
           made == IF t > 1
                   THEN cold_restore_calls(args.algoindex, loc.blured, tt)
                   ELSE <<Call("reverse", tt, <<loc.blured>>)>>
       IN /\ calls' = calls \o made
          /\ loc' = [loc EXCEPT !.i = loc.i + 1,
                                !.blured = IF made = <<>> THEN loc.blured
                                           ELSE Len(calls) + Len(made)]
    /\ UNCHANGED <<prog, args, pc>>

\* lines 206-208: one frame per sample of the final tensor, then return
generate_image_cold_return ==
    /\ prog = "generate_image_cold" /\ pc = "loop"
    /\ loc.i > Len(loc.timesteps)
    /\ loc' = [loc EXCEPT !.frames = [k \in 1..args.sample_size |-> <<loc.blured, k>>]]
    /\ pc' = "done"
    /\ UNCHANGED <<prog, args, calls>>

\* ------------------------------------ generate_image / .._conditional
\* the timestep whose sample is kept as the mid-trajectory snapshot
MidStep == 500

Init_generate_image ==
    /\ prog \in {"generate_image", "generate_image_conditional"}
    /\ \E T \in 1..MaxT, n \in 1..MaxBatch :
          args = [num_timesteps |-> T, sample_size |-> n]
    /\ loc = [sample |-> 0, timesteps |-> <<>>, i |-> 0,
              frames |-> <<>>, frames_mid |-> <<>>]
    /\ pc = "start"
    /\ calls = <<>>

\* mutant: the list is not reversed
ddpm_timesteps_ascending(T) ==
    range(0, T)

\* mutant: the list counts from 1, as the cold loop's does
ddpm_timesteps_one_based(T) ==
    reversed(range(1, T + 1))

\* the descending list the DDPM sampling loop walks
ddpm_timesteps(T) ==
    reversed(range(0, T))

\* lines 142-143 / 166-167: build the list, draw the initial sample
generate_image_start ==
    /\ prog \in {"generate_image", "generate_image_conditional"} /\ pc = "start"
    /\ loc' = [loc EXCEPT !.timesteps = ddpm_timesteps(args.num_timesteps),
                          !.i = 1]
    /\ pc' = "loop"
    /\ UNCHANGED <<prog, args, calls>>

\* what reverse reads besides the sample: the labels, in the conditional driver
reverse_inputs(p, sample) ==
    IF p = "generate_image_conditional" THEN <<sample, -2>> ELSE <<sample>>

\* lines 146-148 / 170-172: reverse on the sample, then step on its result
ddpm_iter_calls(p, n, t, sample, base) ==
    << Call("reverse", time_tensor(n, t), reverse_inputs(p, sample)),
       Call("step", <<t>>, <<base + 1, sample>>) >>

\* lines 145-153 / 169-177: one iteration of the loop over timesteps
generate_image_iter ==
    /\ prog \in {"generate_image", "generate_image_conditional"} /\ pc = "loop"
    /\ loc.i <= Len(loc.timesteps)
    /\ LET t == loc.timesteps[loc.i]
           made == ddpm_iter_calls(prog, args.sample_size, t, loc.sample, Len(calls))
           new == Len(calls) + Len(made)
       IN /\ calls' = calls \o made
          /\ loc' = [loc EXCEPT
                !.i = loc.i + 1,
                !.sample = new,
                !.frames_mid = IF t = MidStep
                               THEN loc.frames_mid \o
                                    [k \in 1..args.sample_size |-> <<new, k>>]
                               ELSE loc.frames_mid]
    /\ UNCHANGED <<prog, args, pc>>

\* lines 155-158 / 179-182: one frame per sample of the final tensor, return
generate_image_return ==
    /\ prog \in {"generate_image", "generate_image_conditional"} /\ pc = "loop"
    /\ loc.i > Len(loc.timesteps)
    /\ loc' = [loc EXCEPT !.frames = [k \in 1..args.sample_size |-> <<loc.sample, k>>]]
    /\ pc' = "done"
    /\ UNCHANGED <<prog, args, calls>>

\* ------------------- training_loop / .._conditional / training_loop_cold
TrainingLoops == {"training_loop", "training_loop_conditional", "training_loop_cold"}

Init_training_loop ==
    /\ prog \in TrainingLoops
    /\ \E T \in 1..MaxT, e \in 1..MaxEpochs, b \in 1..MaxBatches :
          args = [num_timesteps |-> T, num_epochs |-> e, len_dataloader |-> b]
    /\ loc = [epoch |-> 0, step |-> 0, global_step |-> 0, losses |-> <<>>]
    /\ pc = "epoch"
    /\ calls = <<>>

\* torch.randint(low, high, ...): the values one draw can take
randint(low, high) ==
    low..(high - 1)

\* mutant: the cold loop draws from 0 as the DDPM loops do
randint_low_zero(p) ==
    0

\* lines 36 / 65 / 94: the lower end of the timestep draw
randint_low(p) ==
    IF p = "training_loop_cold" THEN 1 ELSE 0

\* lines 29-32: enter the next epoch, model.train()
training_loop_epoch ==
    /\ prog \in TrainingLoops /\ pc = "epoch"
    /\ loc.epoch < args.num_epochs
    /\ calls' = <<Call("train", <<>>, <<>>)>>
    /\ loc' = [loc EXCEPT !.step = 0]
    /\ pc' = "batches"
    /\ UNCHANGED <<prog, args>>

\* mutant: the optimizer steps before the loss is backpropagated
batch_calls_step_first(p, timesteps) ==
    << Call(IF p = "training_loop_cold" THEN "forward_process" ELSE "add_noise",
            timesteps,
            IF p = "training_loop_cold" THEN <<0>> ELSE <<0, -1>>),
       Call("reverse", timesteps,
            IF p = "training_loop_conditional" THEN <<1, -2>> ELSE <<1>>),
       Call("mse_loss", <<>>,
            IF p = "training_loop_cold" THEN <<2, 0>> ELSE <<2, -1>>),
       Call("zero_grad", <<>>, <<>>),
       Call("optimizer.step", <<>>, <<>>),
       Call("backward", <<>>, <<3>>) >>

\* lines 38-43 / 67-72 / 96-101: the calls of one batch, in program order
batch_calls(p, timesteps) ==
    << Call(IF p = "training_loop_cold" THEN "forward_process" ELSE "add_noise",
            timesteps,
            IF p = "training_loop_cold" THEN <<0>> ELSE <<0, -1>>),
       Call("reverse", timesteps,
            IF p = "training_loop_conditional" THEN <<1, -2>> ELSE <<1>>),
       Call("mse_loss", <<>>,
            IF p = "training_loop_cold" THEN <<2, 0>> ELSE <<2, -1>>),
       Call("zero_grad", <<>>, <<>>),
       Call("backward", <<>>, <<3>>),
       Call("optimizer.step", <<>>, <<>>) >>

\* lines 33-49 / 61-78 / 91-107: one batch of batch.shape[0] = n samples
training_loop_batch ==
    /\ prog \in TrainingLoops /\ pc = "batches"
    /\ loc.step < args.len_dataloader
    /\ randint_low(prog) < args.num_timesteps
    /\ \E n \in 1..MaxBatch :
         \E timesteps \in [1..n -> randint(randint_low(prog), args.num_timesteps)] :
            calls' = batch_calls(prog, timesteps)
    /\ loc' = [loc EXCEPT !.step = loc.step + 1,
                          !.global_step = loc.global_step + 1,
                          !.losses = Append(loc.losses, 3)]
    /\ UNCHANGED <<prog, args, pc>>

\* torch.randint raises when low >= high (training_loop_cold, num_timesteps 1)
training_loop_randint_error ==
    /\ prog \in TrainingLoops /\ pc = "batches"
    /\ loc.step < args.len_dataloader
    /\ randint_low(prog) >= args.num_timesteps
    /\ pc' = "RuntimeError"
    /\ UNCHANGED <<prog, args, loc, calls>>

\* line 50 / 79 / 108: the dataloader is exhausted, the epoch ends
training_loop_epoch_end ==
    /\ prog \in TrainingLoops /\ pc = "batches"
    /\ loc.step >= args.len_dataloader
    /\ loc' = [loc EXCEPT !.epoch = loc.epoch + 1]
    /\ pc' = "epoch"
    /\ UNCHANGED <<prog, args, calls>>

\* range(num_epochs) is exhausted: the function returns
training_loop_return ==
    /\ prog \in TrainingLoops /\ pc = "epoch"
    /\ loc.epoch >= args.num_epochs
    /\ pc' = "done"
    /\ UNCHANGED <<prog, args, loc, calls>>

\* --------------------------------------------------------------- __main__
\* One statement of the script: its line, the names it assigns, the names it
\* reads, the integer it assigns (a literal `val`, or the value of the name
\* `from`; 0 stands for a value the model does not interpret), the callee
\* `fn` and the name `t` that carries the timestep count or tensor passed.
\* For generate_image_cold `val` is the literal algoindex argument.
\* A network's value is its n_steps (MyUNet's default), a process's value is
\* its num_timesteps.
S(line, defs, uses, val, from, fn, t) ==
    [line |-> line, defs |-> defs, uses |-> uses, val |-> val,
     from |-> from, fn |-> fn, t |-> t]

\* lines 247-255
branch_ddpm ==
    << S(247, {"num_epochs"}, {}, 200, "", "", ""),
       S(248, {"num_timesteps"}, {}, 1000, "", "", ""),
       S(249, {"network"}, {}, 1000, "", "MyUNet", ""),
       S(250, {"model"}, {"network", "num_timesteps", "device"}, 0, "num_timesteps", "DDPM", ""),
       S(251, {"optimizer"}, {"network", "learning_rate"}, 0, "", "AdamW", ""),
       S(252, {}, {"model", "dataloader", "optimizer", "num_epochs", "num_timesteps", "device"}, 0, "", "training_loop", "num_timesteps"),
       S(253, {"generated", "generated_mid"}, {"model"}, 0, "", "generate_image", "model"),
       S(254, {}, {"generated_mid"}, 0, "", "show_images", ""),
       S(255, {}, {"generated"}, 0, "", "show_images", "") >>

\* lines 258-267
branch_ddpm_conditional ==
    << S(258, {"num_epochs"}, {}, 200, "", "", ""),
       S(259, {"num_timesteps"}, {}, 1000, "", "", ""),
       S(260, {"network"}, {}, 1000, "", "UNet_conditional", ""),
       S(261, {"model"}, {"network", "num_timesteps", "device"}, 0, "num_timesteps", "DDPM_conditional", ""),
       S(262, {"optimizer"}, {"network", "learning_rate"}, 0, "", "AdamW", ""),
       S(263, {}, {"model", "dataloader", "optimizer", "num_epochs", "num_timesteps", "device"}, 0, "", "training_loop_conditional", "num_timesteps"),
       S(264, {"labels"}, {"device"}, 0, "", "", ""),
       S(265, {"generated", "generated_mid"}, {"model", "labels"}, 0, "", "generate_image_conditional", "model"),
       S(266, {}, {"generated_mid"}, 0, "", "show_images", ""),
       S(267, {}, {"generated"}, 0, "", "show_images", "") >>

\* lines 270-287
branch_cold_median ==
    << S(270, {"num_epochs"}, {}, 100, "", "", ""),
       S(271, {"num_timesteps"}, {}, 100, "", "", ""),
       S(272, {"num_timesteps_generate"}, {}, 100, "", "", ""),
       S(273, {"kernel_size"}, {}, 3, "", "", ""),
       S(275, {"network"}, {}, 1000, "", "MyUNet", ""),
       S(276, {"model"}, {"network", "num_timesteps", "num_timesteps_generate", "kernel_size", "device"}, 0, "num_timesteps", "MedianBlur", ""),
       S(277, {"optimizer"}, {"network", "learning_rate"}, 0, "", "AdamW", ""),
       S(278, {}, {"model", "dataloader", "optimizer", "num_epochs", "num_timesteps", "device"}, 0, "", "training_loop_cold", "num_timesteps"),
       S(280, {"images"}, {"dataset"}, 0, "", "", ""),
       S(281, {"generated_1"}, {"model", "images"}, 1, "", "generate_image_cold", "model"),
       S(282, {"generated_2"}, {"model", "images"}, 2, "", "generate_image_cold", "model"),
       S(283, {"time_tensor"}, {"model"}, 0, "model", "", ""),
       S(284, {"blured_final"}, {"model", "images", "time_tensor"}, 0, "", "forward_process", "time_tensor"),
       S(285, {}, {"generated_1"}, 0, "", "show_images", ""),
       S(286, {}, {"generated_2"}, 0, "", "show_images", ""),
       S(287, {}, {"blured_final"}, 0, "", "show_images", "") >>

\* lines 291-310
branch_cold_kernel ==
    << S(291, {"num_epochs"}, {}, 50, "", "", ""),
       S(292, {"num_timesteps"}, {}, 30, "", "", ""),
       S(293, {"num_timesteps_generate"}, {}, 25, "", "", ""),
       S(295, {"kernel"}, {}, 0, "", "", ""),
       S(298, {"network"}, {}, 1000, "", "MyUNet", ""),
       S(299, {"model"}, {"network", "num_timesteps", "num_timesteps_generate", "kernel", "device"}, 0, "num_timesteps", "ConvolutionBlur", ""),
       S(300, {"optimizer"}, {"network", "learning_rate"}, 0, "", "AdamW", ""),
       S(301, {}, {"model", "dataloader", "optimizer", "num_epochs", "num_timesteps", "device"}, 0, "", "training_loop_cold", "num_timesteps"),
       S(303, {"images"}, {"dataset"}, 0, "", "", ""),
       S(304, {"generated_1"}, {"model", "images"}, 1, "", "generate_image_cold", "model"),
       S(305, {"generated_2"}, {"model", "images"}, 2, "", "generate_image_cold", "model"),
       S(306, {"time_tensor"}, {"model"}, 0, "model", "", ""),
       S(307, {"blured_final"}, {"model", "images", "time_tensor"}, 0, "", "forward_process", "time_tensor"),
       S(308, {}, {"generated_1"}, 0, "", "show_images", ""),
       S(309, {}, {"generated_2"}, 0, "", "show_images", ""),
       S(310, {}, {"blured_final"}, 0, "", "show_images", "") >>

\* lines 314-329
branch_cold_resolution ==
    << S(314, {"num_epochs"}, {}, 50, "", "", ""),
       S(315, {"num_timesteps"}, {}, 8, "", "", ""),
       S(317, {"network"}, {}, 1000, "", "MyUNet", ""),
       S(318, {"model"}, {"network", "num_timesteps", "device"}, 0, "num_timesteps", "SuperResolution", ""),
       S(319, {"optimizer"}, {"network", "learning_rate"}, 0, "", "AdamW", ""),
       S(320, {}, {"model", "dataloader", "optimizer", "num_epochs", "num_timesteps", "device"}, 0, "", "training_loop_cold", "num_timesteps"),
       S(322, {"images"}, {"dataset"}, 0, "", "", ""),
       S(323, {"generated_1"}, {"model", "images"}, 1, "", "generate_image_cold", "model"),
       S(324, {"generated_2"}, {"model", "images"}, 2, "", "generate_image_cold", "model"),
       S(325, {"time_tensor"}, {"model"}, 0, "model", "", ""),
       S(326, {"blured_final"}, {"model", "images", "time_tensor"}, 0, "", "forward_process", "time_tensor"),
       S(327, {}, {"generated_1"}, 0, "", "show_images", ""),
       S(328, {}, {"generated_2"}, 0, "", "show_images", ""),
       S(329, {}, {"blured_final"}, 0, "", "show_images", "") >>

\* lines 332-351
branch_score ==
    << S(332, {}, {}, 0, "", "print", ""),
       S(333, {"num_epochs"}, {}, 300, "", "", ""),
       S(334, {"sampling_number"}, {}, 100, "", "", ""),
       S(335, {"only_final"}, {}, 1, "", "", ""),
       S(337, {"eps"}, {}, 0, "", "", ""),
       S(339, {"sigma_min"}, {}, 0, "", "", ""),
       S(340, {"sigma_max"}, {}, 10, "", "", ""),
       S(342, {"n_steps"}, {}, 100, "", "", ""),
       S(343, {"annealed_step"}, {}, 100, "", "", ""),
       S(346, {"model"}, {"network", "device", "n_steps", "sigma_min", "sigma_max"}, 0, "n_steps", "Score_Model", ""),
       S(347, {"optim"}, {"model", "learning_rate"}, 0, "", "Adam", ""),
       S(348, {}, {"model", "dataloader", "optim", "num_epochs", "device"}, 0, "", "training_loop_score", "model"),
       S(349, {"samplingMethod"}, {"sigma_min", "sigma_max", "n_steps", "annealed_step", "model", "device", "eps"}, 0, "n_steps", "AnnealedLangevinDynamic", ""),
       S(350, {"samples"}, {"samplingMethod", "sampling_number", "only_final"}, 0, "", "sampling", "samplingMethod"),
       S(351, {}, {"samples"}, 0, "", "show_images", "") >>

\* the six `if config.experiment_name == ...` statements, in script order
Blocks ==
    << [name |-> "ddpm", body |-> branch_ddpm],
       [name |-> "ddpm_conditional", body |-> branch_ddpm_conditional],
       [name |-> "cold_median", body |-> branch_cold_median],
       [name |-> "cold_kernel", body |-> branch_cold_kernel],
       [name |-> "cold_resolution", body |-> branch_cold_resolution],
       [name |-> "score", body |-> branch_score] >>

\* the names of the --experiment_name help text (line 239)
HelpNames ==
    {"ddpm", "ddpm_conditional", "cold_median", "cold_kernel",
     "cold_resolution", "score"}

\* the callees that run a training or a sampling driver
Drivers ==
    {"training_loop", "training_loop_conditional", "training_loop_cold",
     "training_loop_score", "generate_image", "generate_image_conditional",
     "generate_image_cold", "sampling"}

\* the values a list holds
elements(s) ==
    {s[k] : k \in 1..Len(s)}

\* the timestep indices a driver run over T timesteps hands to the process
\* calls that consult the network (reverse, restore_step_algo1/2): the
\* training loops' randint draw, the sampling loops' list.  The two score
\* drivers are not among the drivers of main.py's functions; their levels
\* are n_steps-1, ..., 0.
network_timesteps(fn, T) ==
    CASE fn \in TrainingLoops -> randint(randint_low(fn), T)
      [] fn \in {"generate_image", "generate_image_conditional"}
            -> elements(ddpm_timesteps(T))
      [] fn = "generate_image_cold" -> elements(cold_timesteps(T))
      [] OTHER -> 0..(T - 1)

Init_main ==
    /\ prog = "main"
    /\ \E name \in HelpNames \cup {"other"} : args = [experiment_name |-> name]
    /\ loc = [env |-> [v \in {"device"} |-> 0], block |-> 0, stmt |-> 0,
              executed |-> <<>>, trace |-> <<>>, invoked |-> <<>>]
    /\ pc = "start"
    /\ calls = <<>>

\* lines 238-244: the parser, the configuration, the dataset and its loader
main_start ==
    /\ prog = "main" /\ pc = "start"
    /\ loc' = [loc EXCEPT
          !.env = [v \in DOMAIN loc.env \cup
                         {"parser", "config", "learning_rate", "dataset", "dataloader"}
                   |-> 0],
          !.block = 1]
    /\ pc' = "if"
    /\ UNCHANGED <<prog, args, calls>>

\* one `if config.experiment_name == name:` test
main_if ==
    /\ prog = "main" /\ pc = "if"
    /\ loc.block <= Len(Blocks)
    /\ IF args.experiment_name = Blocks[loc.block].name
       THEN /\ loc' = [loc EXCEPT !.stmt = 1,
                                  !.executed = Append(loc.executed, Blocks[loc.block].name)]
            /\ pc' = "branch"
       ELSE /\ loc' = [loc EXCEPT !.block = loc.block + 1]
            /\ pc' = "if"
    /\ UNCHANGED <<prog, args, calls>>

\* the environment after a statement: its names bound to its value
assign(env, st) ==
    [v \in DOMAIN env \cup st.defs |->
        IF v \in st.defs
        THEN (IF st.from = "" THEN st.val ELSE env[st.from])
        ELSE env[v]]

\* one statement of the taken branch; reading an unassigned name raises
main_stmt ==
    /\ prog = "main" /\ pc = "branch"
    /\ loc.stmt <= Len(Blocks[loc.block].body)
    /\ LET st == Blocks[loc.block].body[loc.stmt]
       IN IF ~(st.uses \subseteq DOMAIN loc.env)
          THEN /\ pc' = "NameError"
               /\ UNCHANGED <<loc, calls>>
          ELSE /\ pc' = "branch"
               /\ calls' = IF st.fn = "forward_process"
                           THEN Append(calls, Call(st.fn,
                                       time_tensor(100, loc.env[st.t]), <<0>>))
                           ELSE calls
               /\ loc' = [loc EXCEPT
                     !.env = assign(loc.env, st),
                     !.stmt = loc.stmt + 1,
                     !.trace = IF st.fn = "" THEN loc.trace
                               ELSE Append(loc.trace, st.fn),
                     !.invoked = IF st.fn \in Drivers
                                 THEN Append(loc.invoked,
                                        [fn |-> st.fn,
                                         num_timesteps |-> loc.env[st.t],
                                         arg |-> st.val,
                                         n_steps |-> loc.env["network"],
                                         passed |-> network_timesteps(
                                                      st.fn, loc.env[st.t])])
                                 ELSE loc.invoked]
    /\ UNCHANGED <<prog, args>>

\* the branch is over: on to the next `if`
main_branch_end ==
    /\ prog = "main" /\ pc = "branch"
    /\ loc.stmt > Len(Blocks[loc.block].body)
    /\ loc' = [loc EXCEPT !.block = loc.block + 1]
    /\ pc' = "if"
    /\ UNCHANGED <<prog, args, calls>>

\* past the last `if`: the script ends
main_exit ==
    /\ prog = "main" /\ pc = "if"
    /\ loc.block > Len(Blocks)
    /\ pc' = "done"
    /\ UNCHANGED <<prog, args, loc, calls>>

\* ----------------------------------------------------------- show_images
Init_show_images ==
    /\ prog = "show_images"
    /\ \E n \in 0..MaxImages : args = [len_images |-> n]
    /\ loc = [rows |-> 0, cols |-> 0, r |-> 0, c |-> 0, idx |-> 0,
              subplots |-> 0, shown |-> <<>>]
    /\ pc = "start"
    /\ calls = <<>>

\* int(n ** (1 / 2)): the square root, truncated
int_sqrt(n) ==
    CHOOSE r \in 0..n : r * r <= n /\ (r + 1) * (r + 1) > n

\* round(a / b) of Python 3: to the nearest integer, a tie to the even one
py_round(a, b) ==
    LET q == a \div b
        m == a % b
    IN IF 2 * m < b THEN q
       ELSE IF 2 * m > b THEN q + 1
       ELSE IF q % 2 = 0 THEN q ELSE q + 1

\* lines 218-223: the grid; dividing by rows = 0 raises
show_images_start ==
    /\ prog = "show_images" /\ pc = "start"
    /\ LET rows == int_sqrt(args.len_images)
       IN IF rows = 0
          THEN /\ pc' = "ZeroDivisionError"
               /\ loc' = [loc EXCEPT !.rows = rows]
          ELSE /\ pc' = "grid"
               /\ loc' = [loc EXCEPT !.rows = rows,
                                     !.cols = py_round(args.len_images, rows)]
    /\ UNCHANGED <<prog, args, calls>>

\* lines 224-230: one cell of the grid, an image in it while any is left
show_images_cell ==
    /\ prog = "show_images" /\ pc = "grid"
    /\ loc.r < loc.rows /\ loc.c < loc.cols
    /\ loc' = [loc EXCEPT
          !.subplots = loc.subplots + 1,
          !.shown = IF loc.idx < args.len_images
                    THEN Append(loc.shown, loc.idx) ELSE loc.shown,
          !.idx = IF loc.idx < args.len_images THEN loc.idx + 1 ELSE loc.idx,
          !.c = IF loc.c + 1 < loc.cols THEN loc.c + 1 ELSE 0,
          !.r = IF loc.c + 1 < loc.cols THEN loc.r ELSE loc.r + 1]
    /\ UNCHANGED <<prog, args, pc, calls>>

\* lines 231-234: title, save, show
show_images_finish ==
    /\ prog = "show_images" /\ pc = "grid"
    /\ ~(loc.r < loc.rows /\ loc.c < loc.cols)
    /\ pc' = "done"
    /\ UNCHANGED <<prog, args, loc, calls>>

\* -------------------------------------------------- sinusoidal_embedding
Init_sinusoidal_embedding ==
    /\ prog = "sinusoidal_embedding"
    /\ \E n \in 1..MaxN, d \in 1..MaxD : args = [n |-> n, d |-> d]
    /\ loc = [embedding |-> <<>>, sin_mask |-> <<>>,
              sin_rows |-> {}, cos_rows |-> {}]
    /\ pc = "start"
    /\ calls = <<>>

\* torch.arange(0, n, 2)
arange_by2(n) ==
    [k \in 1..((n + 1) \div 2) |-> 2 * (k - 1)]

\* a tensor index: a negative one counts from the end
wrap_index(i, n) ==
    IF i < 0 THEN i + n ELSE i

\* row i of a table (rows are numbered from 0)
Row(table, i) ==
    table[i + 1]

\* torch.sin / torch.cos of a row: entry by entry, on top of what was applied
apply_fn(f, row) ==
    [j \in 1..Len(row) |-> [row[j] EXCEPT !.f = Append(row[j].f, f)]]

\* table[index] = rows: the k-th row goes to row index[k]
index_put(table, index, rows) ==
    [i \in 1..Len(table) |->
        IF \E k \in 1..Len(index) : wrap_index(index[k], Len(table)) = i - 1
        THEN rows[CHOOSE k \in 1..Len(index) :
                    /\ wrap_index(index[k], Len(table)) = i - 1
                    /\ \A k2 \in 1..Len(index) :
                          wrap_index(index[k2], Len(table)) = i - 1 => k2 <= k]
        ELSE table[i]]

\* lines 7-8: entry (i, j) is i / 10000 ** (2 j / d), kept by its position
sinusoidal_embedding_start ==
    /\ prog = "sinusoidal_embedding" /\ pc = "start"
    /\ loc' = [loc EXCEPT
          !.embedding = [i \in 1..args.n |->
                           [j \in 1..args.d |-> [i |-> i - 1, j |-> j - 1, f |-> <<>>]]],
          !.sin_mask = arange_by2(args.n)]
    /\ pc' = "sin"
    /\ UNCHANGED <<prog, args, calls>>

\* line 10: embedding[sin_mask] = torch.sin(embedding[sin_mask])
sinusoidal_embedding_sin ==
    /\ prog = "sinusoidal_embedding" /\ pc = "sin"
    /\ LET rows == [k \in 1..Len(loc.sin_mask) |->
                      apply_fn("sin", Row(loc.embedding, loc.sin_mask[k]))]
       IN loc' = [loc EXCEPT
             !.embedding = index_put(loc.embedding, loc.sin_mask, rows),
             !.sin_rows = {loc.sin_mask[k] : k \in 1..Len(loc.sin_mask)}]
    /\ pc' = "cos"
    /\ UNCHANGED <<prog, args, calls>>

\* the index tensor of line 11: 1 - sin_mask
cos_index(sin_mask) ==
    [k \in 1..Len(sin_mask) |-> 1 - sin_mask[k]]

\* line 11: embedding[1 - sin_mask] = torch.cos(embedding[sin_mask]); an
\* index outside [-n, n) raises
sinusoidal_embedding_cos ==
    /\ prog = "sinusoidal_embedding" /\ pc = "cos"
    /\ LET index == cos_index(loc.sin_mask)
           rows == [k \in 1..Len(loc.sin_mask) |->
                      apply_fn("cos", Row(loc.embedding, loc.sin_mask[k]))]
       IN IF \E k \in 1..Len(index) : index[k] >= args.n \/ index[k] < -args.n
          THEN /\ pc' = "IndexError"
               /\ UNCHANGED loc
          ELSE /\ pc' = "done"
               /\ loc' = [loc EXCEPT
                     !.embedding = index_put(loc.embedding, index, rows),
                     !.cos_rows = {wrap_index(index[k], args.n) :
                                      k \in 1..Len(index)}]
    /\ UNCHANGED <<prog, args, calls>>

\* ------------------------------------------------ UNet_conditional.forward
\* the width of an embedding row
time_emb_dim == 100

\* UNet_conditional(n_steps, time_emb_dim, nb_classes) and one call
\* forward(x, t, y): nb_classes and y are None when not `given`; t has shape
\* (N,) or (N, 1) and holds one timestep per sample
Init_forward ==
    /\ prog = "UNet_conditional.forward"
    /\ \E n_steps \in 1..MaxSteps, N \in 1..MaxBatch :
         \E nb \in {[given |-> FALSE, n |-> 0]}
                   \cup {[given |-> TRUE, n |-> c] : c \in 1..MaxClasses},
            t \in [1..N -> 0..MaxSteps],
            t_shape \in {<<N>>, <<N, 1>>},
            y \in {[given |-> FALSE, v |-> <<>>]}
                  \cup {[given |-> TRUE, v |-> l] : l \in [1..N -> 0..(MaxClasses - 1)]} :
            args = [n_steps |-> n_steps, nb_classes |-> nb, N |-> N,
                    t |-> t, t_shape |-> t_shape, y |-> y]
    /\ loc = [t |-> [shape |-> <<>>, rows |-> <<>>], label_emb_reads |-> 0]
    /\ pc = "time_embed"
    /\ calls = <<>>

\* nn.Embedding(num, dim)(index): every index must be a row of the table
embedding_in_range(index, num) ==
    \A k \in 1..Len(index) : 0 <= index[k] /\ index[k] < num

\* line 18: t = self.time_embed(t)
forward_time_embed ==
    /\ prog = "UNet_conditional.forward" /\ pc = "time_embed"
    /\ IF embedding_in_range(args.t, args.n_steps)
       THEN /\ loc' = [loc EXCEPT
                  !.t = [shape |-> args.t_shape \o <<time_emb_dim>>,
                         rows |-> [k \in 1..args.N |->
                                     [time |-> args.t[k], labels |-> <<>>]]]]
            /\ pc' = "squeeze"
       ELSE /\ pc' = "IndexError"
            /\ UNCHANGED loc
    /\ UNCHANGED <<prog, args, calls>>

\* torch.squeeze(t): every dimension of size 1 is dropped
squeeze(shape) ==
    SelectSeq(shape, LAMBDA x : x # 1)

\* line 19: t = torch.squeeze(t)
forward_squeeze ==
    /\ prog = "UNet_conditional.forward" /\ pc = "squeeze"
    /\ loc' = [loc EXCEPT !.t.shape = squeeze(loc.t.shape)]
    /\ pc' = "label"
    /\ UNCHANGED <<prog, args, calls>>

\* the shape a and b broadcast to (aligned at the last dimension); <<>> when
\* they do not broadcast
broadcast_shape(a, b) ==
    LET L == IF Len(a) > Len(b) THEN Len(a) ELSE Len(b)
        pad(s) == [k \in 1..L |-> IF k <= L - Len(s) THEN 1 ELSE s[k - (L - Len(s))]]
        pa == pad(a)
        pb == pad(b)
    IN IF \A k \in 1..L : pa[k] = pb[k] \/ pa[k] = 1 \/ pb[k] = 1
       THEN [k \in 1..L |-> IF pa[k] = 1 THEN pb[k] ELSE pa[k]]
       ELSE <<>>

\* mutant: the label embedding is added whenever the network has one
adds_label_if_emb(y, nb_classes) ==
    nb_classes.given

\* line 21: if y is not None
adds_label(y, nb_classes) ==
    y.given

\* lines 21-22: if y is not None: t += self.label_emb(y).  Reading label_emb
\* raises AttributeError when __init__ (lines 14-15) did not create it, the
\* lookup raises for None or a label outside the table, and the in-place add
\* raises when the sum does not have t's own shape
forward_label ==
    /\ prog = "UNet_conditional.forward" /\ pc = "label"
    /\ IF ~adds_label(args.y, args.nb_classes)
       THEN /\ pc' = "rest"
            /\ UNCHANGED loc
       ELSE IF ~args.nb_classes.given
       THEN /\ pc' = "AttributeError"
            /\ loc' = [loc EXCEPT !.label_emb_reads = loc.label_emb_reads + 1]
       ELSE IF ~args.y.given
       THEN /\ pc' = "TypeError"
            /\ loc' = [loc EXCEPT !.label_emb_reads = loc.label_emb_reads + 1]
       ELSE IF ~embedding_in_range(args.y.v, args.nb_classes.n)
       THEN /\ pc' = "IndexError"
            /\ loc' = [loc EXCEPT !.label_emb_reads = loc.label_emb_reads + 1]
       ELSE IF broadcast_shape(loc.t.shape, <<Len(args.y.v), time_emb_dim>>)
               # loc.t.shape
       THEN /\ pc' = "RuntimeError"
            /\ loc' = [loc EXCEPT !.label_emb_reads = loc.label_emb_reads + 1]
       ELSE /\ pc' = "rest"
            /\ loc' = [loc EXCEPT
                  !.label_emb_reads = loc.label_emb_reads + 1,
                  !.t.rows = [k \in 1..Len(loc.t.rows) |->
                                [loc.t.rows[k] EXCEPT
                                   !.labels = Append(loc.t.rows[k].labels,
                                                     args.y.v[k])]]]
    /\ UNCHANGED <<prog, args, calls>>

\* lines 23-38: the blocks, each fed te(t).reshape(n, -1, 1, 1)
forward_rest ==
    /\ prog = "UNet_conditional.forward" /\ pc = "rest"
    /\ pc' = "done"
    /\ UNCHANGED <<prog, args, loc, calls>>

\* ------------------------------------ cold diffusion process (ddpm_cold)
\* An image is a row of ImgLen pixels in 0..MaxPix.  The process is the
\* convolution blur: D_1 is the mean over a pixel and its two neighbours
\* (zeros beyond the border), D_t is D_1 applied t times.
Images ==
    [1..ImgLen -> 0..MaxPix]

pixel(x, i) ==
    IF i \in 1..Len(x) THEN x[i] ELSE 0

\* one application of the base degradation D_1 (the trailing \o <<>> has TLC
\* evaluate the row once, as a tuple, instead of once per use)
degrade(x) ==
    [i \in 1..Len(x) |-> (pixel(x, i - 1) + pixel(x, i) + pixel(x, i + 1)) \div 3]
    \o <<>>

\* forward_process(x0, t) = D_t(x0)
RECURSIVE forward_process(_, _)
forward_process(x0, t) ==
    IF t = 0 THEN x0 ELSE degrade(forward_process(x0, t - 1))

\* reverse(x_t, t): the network's estimate of x0; the oracle returns x0, the
\* other network here returns its input unchanged
reverse(network, x, t, x0) ==
    IF network = "oracle" THEN x0 ELSE x

\* mutant: the two degradations of the estimate are swapped
restore_step_algo1_swapped(x, t, x0_hat) ==
    [i \in 1..Len(x) |->
        x[i] - forward_process(x0_hat, t - 1)[i] + forward_process(x0_hat, t)[i]]

\* x_{t-1} = x_t - D_t(x0_hat) + D_{t-1}(x0_hat)
restore_step_algo1(x, t, x0_hat) ==
    [i \in 1..Len(x) |->
        x[i] - forward_process(x0_hat, t)[i] + forward_process(x0_hat, t - 1)[i]]

\* the same update with D_t recomposed as D_1 after D_{t-1}
restore_step_algo2(x, t, x0_hat) ==
    LET below == forward_process(x0_hat, t - 1)
    IN [i \in 1..Len(x) |-> x[i] - degrade(below)[i] + below[i]]

\* the restore loop from t = T down to 2 on the sample degraded at T
Init_restore ==
    /\ prog = "restore_step"
    /\ \E x0 \in Images, T \in 2..MaxT, a \in {1, 2},
          network \in {"oracle", "identity"} :
          /\ args = [x0 |-> x0, num_timesteps |-> T, algoindex |-> a,
                     network |-> network]
          /\ loc = [x |-> forward_process(x0, T), t |-> T]
    /\ pc = "loop"
    /\ calls = <<>>

\* one restore step at depth t, with the network's estimate of x0
restore_step ==
    /\ prog = "restore_step" /\ pc = "loop"
    /\ loc.t >= 2
    /\ LET x0_hat == reverse(args.network, loc.x, loc.t, args.x0)
       IN loc' = [loc EXCEPT
             !.x = IF args.algoindex = 1
                   THEN restore_step_algo1(loc.x, loc.t, x0_hat)
                   ELSE restore_step_algo2(loc.x, loc.t, x0_hat),
             !.t = loc.t - 1]
    /\ UNCHANGED <<prog, args, pc, calls>>

\* depth 1 is reached: the loop is over
restore_done ==
    /\ prog = "restore_step" /\ pc = "loop"
    /\ loc.t < 2
    /\ pc' = "done"
    /\ UNCHANGED <<prog, args, loc, calls>>

\* --------------------------------------- AnnealedLangevinDynamic.sampling
\* A batch is kept as its size and the Langevin updates applied to it.
Init_sampling ==
    /\ prog = "sampling"
    /\ \E n \in 1..MaxBatch, only_final \in BOOLEAN,
          n_steps \in 1..MaxSteps, annealed_step \in 1..MaxAnneal :
          args = [n |-> n, only_final |-> only_final, n_steps |-> n_steps,
                  annealed_step |-> annealed_step]
    /\ loc = [call |-> 1, i |-> 0, k |-> 0, x |-> [n |-> 0, updates |-> 0],
              out |-> <<>>, visited |-> <<>>, lengths |-> <<>>]
    /\ pc = "start"
    /\ calls = <<>>

\* a call starts from a fresh random batch of n samples at the top level
sampling_start ==
    /\ prog = "sampling" /\ pc = "start"
    /\ loc' = [loc EXCEPT !.i = args.n_steps - 1, !.k = 0,
                          !.x = [n |-> args.n, updates |-> 0],
                          !.out = <<>>, !.visited = <<>>]
    /\ pc' = "anneal"
    /\ UNCHANGED <<prog, args, calls>>

\* x <- x + (alpha_i / 2) score(x, i) + sqrt(alpha_i) z
sampling_langevin_step ==
    /\ prog = "sampling" /\ pc = "anneal"
    /\ loc.i >= 0 /\ loc.k < args.annealed_step
    /\ loc' = [loc EXCEPT !.k = loc.k + 1, !.x.updates = loc.x.updates + 1]
    /\ UNCHANGED <<prog, args, pc, calls>>

\* the level's updates are done: keep its batch unless only_final, go down
sampling_level_end ==
    /\ prog = "sampling" /\ pc = "anneal"
    /\ loc.i >= 0 /\ loc.k >= args.annealed_step
    /\ loc' = [loc EXCEPT
          !.visited = Append(loc.visited, <<loc.i, loc.k>>),
          !.out = IF args.only_final THEN loc.out ELSE Append(loc.out, loc.x),
          !.i = loc.i - 1,
          !.k = 0]
    /\ UNCHANGED <<prog, args, pc, calls>>

\* mutant: the kept batches are returned even when only_final
sampling_return_partial ==
    /\ prog = "sampling" /\ pc = "anneal"
    /\ loc.i < 0
    /\ loc' = [loc EXCEPT !.lengths = Append(loc.lengths, Len(loc.out))]
    /\ pc' = "returned"
    /\ UNCHANGED <<prog, args, calls>>

\* every level is done: the output is the final batch alone, or every batch
sampling_return ==
    /\ prog = "sampling" /\ pc = "anneal"
    /\ loc.i < 0
    /\ LET out == IF args.only_final THEN <<loc.x>> ELSE loc.out
       IN loc' = [loc EXCEPT !.out = out,
                             !.lengths = Append(loc.lengths, Len(out))]
    /\ pc' = "returned"
    /\ UNCHANGED <<prog, args, calls>>

\* the caller calls sampling again with the same arguments
sampling_again ==
    /\ prog = "sampling" /\ pc = "returned"
    /\ loc.call < MaxCalls
    /\ loc' = [loc EXCEPT !.call = loc.call + 1]
    /\ pc' = "start"
    /\ UNCHANGED <<prog, args, calls>>

sampling_next ==
    \/ sampling_start
    \/ sampling_langevin_step
    \/ sampling_level_end
    \/ sampling_return
    \/ sampling_again

\* the sampler alone; a call in progress always takes its next step
SamplingSpec == Init_sampling /\ [][sampling_next]_vars /\ WF_vars(sampling_next)

\* ------------------------------------------------------- specification
Init ==
    \/ Init_generate_image_cold
    \/ Init_generate_image
    \/ Init_training_loop
    \/ Init_main
    \/ Init_show_images
    \/ Init_sinusoidal_embedding
    \/ Init_forward
    \/ Init_restore
    \/ Init_sampling

Next ==
    \/ generate_image_cold_start
    \/ generate_image_cold_iter
    \/ generate_image_cold_return
    \/ generate_image_start
    \/ generate_image_iter
    \/ generate_image_return
    \/ training_loop_epoch
    \/ training_loop_batch
    \/ training_loop_randint_error
    \/ training_loop_epoch_end
    \/ training_loop_return
    \/ main_start
    \/ main_if
    \/ main_stmt
    \/ main_branch_end
    \/ main_exit
    \/ show_images_start
    \/ show_images_cell
    \/ show_images_finish
    \/ sinusoidal_embedding_start
    \/ sinusoidal_embedding_sin
    \/ sinusoidal_embedding_cos
    \/ forward_time_embed
    \/ forward_squeeze
    \/ forward_label
    \/ forward_rest
    \/ restore_step
    \/ restore_done
    \/ sampling_next

Spec == Init /\ [][Next]_vars

\* ---------------------------------------------------------------- C1
\* the calls the claim expects of generate_image_cold: forward_process at T,
\* a restore step at T, T-1, ..., 2, then reverse at 1
cold_claimed_calls(T, n, a) ==
    LET fn == IF a = 1 THEN "restore_step_algo1" ELSE "restore_step_algo2"
        ts == reversed(range(2, T + 1))
    IN <<Call("forward_process", time_tensor(n, T), <<0>>)>>
       \o [k \in 1..Len(ts) |-> Call(fn, time_tensor(n, ts[k]), <<k>>)]
       \o <<Call("reverse", time_tensor(n, 1), <<Len(ts) + 1>>)>>

\* C1: when generate_image_cold returns (T >= 2, algoindex 1 or 2) it has
\* called a restore step once for every t = T, T-1, ..., 2 in that order on
\* the sample degraded at T, and then reverse exactly once at t = 1.
C1_RestoreFromTDownTo2 ==
    (/\ prog = "generate_image_cold" /\ pc = "done"
     /\ args.num_timesteps >= 2 /\ args.algoindex \in {1, 2})
    => calls = cold_claimed_calls(args.num_timesteps, args.sample_size,
                                  args.algoindex)

\* ---------------------------------------------------------------- C2
\* reverse then step at each of T-1, ..., 0, each on the previous result
ddpm_expected_calls(p, T, n) ==
    [j \in 1..(2 * T) |->
        LET k == (j + 1) \div 2
            t == T - k
            sample == 2 * (k - 1)
        IN IF j % 2 = 1
           THEN Call("reverse", time_tensor(n, t),
                     IF p = "generate_image_conditional"
                     THEN <<sample, -2>> ELSE <<sample>>)
           ELSE Call("step", <<t>>, <<j - 1, sample>>)]

\* C2: in generate_image and generate_image_conditional the calls made so far
\* are always a prefix of reverse(T-1), step(T-1), ..., reverse(0), step(0)
\* (step on the result of the reverse just before it, at the same t, on the
\* current sample), and on return the whole sequence has been made.
C2_StepOncePerDescendingT ==
    prog \in {"generate_image", "generate_image_conditional"}
    => LET want == ddpm_expected_calls(prog, args.num_timesteps, args.sample_size)
       IN /\ Len(calls) <= Len(want)
          /\ calls = SubSeq(want, 1, Len(calls))
          /\ (pc = "done" => calls = want)

\* a DDPM sampling run over at least two timesteps has returned
C2_Witness ==
    /\ prog \in {"generate_image", "generate_image_conditional"}
    /\ pc = "done" /\ args.num_timesteps >= 2
    /\ Len(calls) = 2 * args.num_timesteps

\* ---------------------------------------------------------------- C3
ColdCalls == {"forward_process", "restore_step_algo1", "restore_step_algo2"}

\* the cold-diffusion runs the claim covers: the cold drivers with
\* num_timesteps >= 2, and the script
C3_Covered ==
    \/ prog \in {"training_loop_cold", "generate_image_cold"}
       /\ args.num_timesteps >= 2
    \/ prog = "main"

\* C3: no call of forward_process, restore_step_algo1 or restore_step_algo2
\* made by training_loop_cold, generate_image_cold (num_timesteps >= 2) or the
\* script passes a timestep tensor holding a value < 1, and the script hands
\* the cold drivers a num_timesteps >= 2.
C3_ColdTimestepNeverZero ==
    C3_Covered =>
       /\ \A k \in 1..Len(calls) :
             calls[k].fn \in ColdCalls =>
                \A j \in 1..Len(calls[k].t) : calls[k].t[j] >= 1
       /\ prog = "main" =>
             \A k \in 1..Len(loc.invoked) :
                loc.invoked[k].fn \in {"training_loop_cold", "generate_image_cold"}
                => loc.invoked[k].num_timesteps >= 2

\* a cold training batch has drawn the smallest timestep there is, 1, for a
\* sample and passed it to forward_process
C3_Witness ==
    /\ prog = "training_loop_cold" /\ args.num_timesteps >= 2
    /\ Len(calls) = 6
    /\ calls[1].fn = "forward_process"
    /\ \E j \in 1..Len(calls[1].t) : calls[1].t[j] = 1

\* ---------------------------------------------------------------- C4
\* the batch calls the claim describes, for the timestep tensor ts
C4_ClaimedBatch(p, ts) ==
    LET cold == p = "training_loop_cold"
    IN /\ Len(calls) = 6
       /\ calls[1] = Call(IF cold THEN "forward_process" ELSE "add_noise", ts,
                          IF cold THEN <<0>> ELSE <<0, -1>>)
       /\ calls[2].fn = "reverse" /\ calls[2].t = ts /\ calls[2].in[1] = 1
       /\ calls[3] = Call("mse_loss", <<>>, IF cold THEN <<2, 0>> ELSE <<2, -1>>)
       /\ calls[4].fn = "zero_grad"
       /\ calls[5] = Call("backward", <<>>, <<3>>)
       /\ calls[6].fn = "optimizer.step"

\* the set the claim says a timestep is drawn from
C4_ClaimedRange(p, T) ==
    IF p = "training_loop_cold" THEN 1..(T - 1) ELSE 0..(T - 1)

\* C4: after each batch of a training driver the calls of that batch are
\* add_noise / forward_process, reverse on its result with the same
\* timesteps, the MSE loss of the prediction against the noise (DDPM) or the
\* clean batch (cold), zero_grad, backward on the loss, one optimizer step,
\* one timestep per sample drawn from {0..T-1} (DDPM) or {1..T-1} (cold); and
\* before a batch every tensor of timesteps over that set can be drawn.
C4_BatchOrderAndRange ==
    prog \in TrainingLoops =>
       /\ (pc = "batches" /\ loc.step > 0) =>
             /\ \A j \in 1..Len(calls[1].t) :
                   calls[1].t[j] \in C4_ClaimedRange(prog, args.num_timesteps)
             /\ Len(calls[1].t) >= 1
             /\ C4_ClaimedBatch(prog, calls[1].t)
       /\ (pc = "batches" /\ loc.step < args.len_dataloader
           /\ C4_ClaimedRange(prog, args.num_timesteps) # {}) =>
             \A n \in 1..MaxBatch :
                \A ts \in [1..n -> C4_ClaimedRange(prog, args.num_timesteps)] :
                   ENABLED (training_loop_batch /\ calls'[1].t = ts)

\* a cold batch of two samples has drawn both ends of {1..T-1}, T >= 3
C4_Witness ==
    /\ prog = "training_loop_cold" /\ pc = "batches" /\ loc.step > 0
    /\ args.num_timesteps >= 3
    /\ calls[1].t = <<1, args.num_timesteps - 1>>
    /\ calls[6].fn = "optimizer.step"

\* ---------------------------------------------------------------- C8
\* the stages of a branch, in the order it ran them
C8_Stage(fn) ==
    CASE fn \in {"MyUNet", "UNet_conditional"} -> "network"
      [] fn \in {"DDPM", "DDPM_conditional", "MedianBlur", "ConvolutionBlur",
                 "SuperResolution", "Score_Model"} -> "process"
      [] fn \in {"training_loop", "training_loop_conditional",
                 "training_loop_cold", "training_loop_score"} -> "train"
      [] fn \in {"generate_image", "generate_image_conditional",
                 "generate_image_cold", "sampling"} -> "sample"
      [] fn = "show_images" -> "show"
      [] OTHER -> ""

C8_StageRank(stage) ==
    CASE stage = "network" -> 1 [] stage = "process" -> 2 [] stage = "train" -> 3
      [] stage = "sample" -> 4 [] stage = "show" -> 5 [] OTHER -> 0

\* C8: for every experiment name of the help text the script never reads a
\* name before assigning it, runs exactly one branch, and that branch runs
\* its stages in the order network, process, train, sample, show, each of
\* them at least once.
C8_OneBranchAssignedBeforeUse ==
    (prog = "main" /\ args.experiment_name \in HelpNames) =>
       /\ pc # "NameError"
       /\ pc = "done" =>
             /\ loc.executed = <<args.experiment_name>>
             /\ LET ranks == [k \in 1..Len(loc.trace) |->
                                C8_StageRank(C8_Stage(loc.trace[k]))]
                IN /\ \A a, b \in 1..Len(ranks) :
                         (a < b /\ ranks[a] > 0 /\ ranks[b] > 0)
                         => ranks[a] <= ranks[b]
                   /\ \A r \in 1..5 : \E a \in 1..Len(ranks) : ranks[a] = r

\* ---------------------------------------------------------------- C9
\* C9: when show_images finishes on a non-empty list of n images its grid
\* has rows * cols >= n cells and idx has reached n: every image is shown.
C9_GridHoldsEveryImage ==
    (prog = "show_images" /\ pc = "done" /\ args.len_images >= 1) =>
       /\ loc.rows * loc.cols >= args.len_images
       /\ loc.idx = args.len_images
       /\ loc.shown = [k \in 1..args.len_images |-> k - 1]

\* ---------------------------------------------------------------- C10
\* C10: when sinusoidal_embedding(n, d) returns, n >= 2, the rows written by
\* the sin assignment are the even rows, those written by the cos assignment
\* are the odd rows, no row is written by both, and every entry of row i was
\* computed from the original row i.
C10_StandardRowwiseEmbedding ==
    (prog = "sinusoidal_embedding" /\ pc = "done" /\ args.n >= 2) =>
       /\ loc.sin_rows = {i \in 0..(args.n - 1) : i % 2 = 0}
       /\ loc.cos_rows = {i \in 0..(args.n - 1) : i % 2 = 1}
       /\ loc.sin_rows \cap loc.cos_rows = {}
       /\ \A i \in 0..(args.n - 1) :
             \A j \in 1..args.d : Row(loc.embedding, i)[j].i = i

\* ---------------------------------------------------------------- C7
\* C7: in UNet_conditional.forward, with y = None the label embedding is
\* never read and, the timesteps being rows of the time-embedding table, the
\* call raises nothing and returns with the time embedding alone, whether or
\* not nb_classes was given; the label embedding is read only when y is not
\* None, and a call that returns with labels has added to each sample's
\* embedding exactly its own label, once.
C7_NoLabelNoLabelEmbedding ==
    prog = "UNet_conditional.forward" =>
       /\ ~args.y.given =>
             /\ loc.label_emb_reads = 0
             /\ pc \in {"time_embed", "squeeze", "label", "rest", "done", "IndexError"}
             /\ pc = "IndexError" => ~embedding_in_range(args.t, args.n_steps)
             /\ pc = "done" =>
                   \A k \in 1..args.N :
                      loc.t.rows[k] = [time |-> args.t[k], labels |-> <<>>]
       /\ loc.label_emb_reads > 0 => args.y.given
       /\ loc.label_emb_reads <= 1
       /\ (pc = "done" /\ args.y.given) =>
             \A k \in 1..args.N :
                loc.t.rows[k] = [time |-> args.t[k], labels |-> <<args.y.v[k]>>]

\* forward has returned without a label on a network built with nb_classes,
\* and on one built without
C7_Witness ==
    /\ prog = "UNet_conditional.forward" /\ pc = "done"
    /\ ~args.y.given /\ args.nb_classes.given /\ args.N = 2
    /\ loc.label_emb_reads = 0

C6_Returned ==
    (prog = "sampling" /\ pc = "returned") =>
       /\ loc.visited = [j \in 1..args.n_steps |->
                            <<args.n_steps - j, args.annealed_step>>]
       /\ Len(loc.out) = IF args.only_final THEN 1 ELSE args.n_steps
       /\ \A j \in 1..Len(loc.out) : loc.out[j].n = args.n
       /\ loc.out[Len(loc.out)].updates = args.n_steps * args.annealed_step
       /\ \A j \in 1..Len(loc.lengths) : loc.lengths[j] = loc.lengths[1]
       /\ Len(loc.lengths) = loc.call

\* C6: every call of sampling(n, only_final) returns, having visited the
\* noise levels n_steps-1, ..., 0 in that order with annealed_step updates at
\* each; its output holds 1 batch (the final one, of n samples) when
\* only_final and n_steps batches otherwise; and a further call starts from
\* scratch and returns an output of the same length.
C6_SamplingTerminates ==
    /\ [] C6_Returned
    /\ (prog = "sampling" /\ pc = "start") ~> (pc = "returned")

\* a second call has returned after n_steps >= 2 levels of >= 2 updates
C6_Witness ==
    /\ prog = "sampling" /\ pc = "returned" /\ loc.call = 2
    /\ args.n_steps >= 2 /\ args.annealed_step >= 2 /\ args.n = 2
    /\ Len(loc.lengths) = 2

\* --------------------------------------------------------------- C11
\* the restore function the driver is said to select for algoindex 1 and 2
C11_Selected(algoindex) ==
    IF algoindex = 1 THEN "restore_step_algo1" ELSE "restore_step_algo2"

\* one loop iteration of generate_image_cold at the timestep t > 1 is about
\* to run
C11_AtRestoreIteration ==
    /\ prog = "generate_image_cold" /\ pc = "loop"
    /\ loc.i <= Len(loc.timesteps)
    /\ loc.timesteps[loc.i] > 1

\* what that iteration is said to do: for algoindex 1 or 2 exactly one call,
\* of the selected restore function, at the tensor of t, on the current
\* sample, whose result becomes the sample; otherwise no call and the same
\* sample
C11_IterationEffect ==
    LET tt == time_tensor(args.sample_size, loc.timesteps[loc.i])
    IN /\ loc'.i = loc.i + 1
       /\ IF args.algoindex \in {1, 2}
          THEN /\ calls' = Append(calls, Call(C11_Selected(args.algoindex), tt,
                                              <<loc.blured>>))
               /\ loc'.blured = Len(calls')
          ELSE /\ calls' = calls
               /\ loc'.blured = loc.blured

\* for any other algoindex the sample stays the degraded input (the result
\* of calls[1]) until the reverse at t = 1, which is then the only other call
C11_OtherKeepsDegraded ==
    (prog = "generate_image_cold" /\ args.algoindex \notin {1, 2}
       /\ pc \in {"loop", "done"})
    => /\ \A k \in 2..Len(calls) :
             calls[k] = Call("reverse", time_tensor(args.sample_size, 1), <<1>>)
       /\ Len(calls) <= 2
       /\ (Len(calls) = 1 => loc.blured = 1)
       /\ (pc = "done" /\ args.num_timesteps >= 2 => Len(calls) = 2)

\* C11: in generate_image_cold every loop iteration with t > 1 calls, for
\* algoindex 1 or 2, exactly one restore function (restore_step_algo1 for 1,
\* restore_step_algo2 for 2) on the current sample and replaces the sample
\* with its result; for any other algoindex it calls nothing and leaves the
\* sample unchanged, so that the reverse at t = 1 reads the degraded input.
C11_OneRestorePerIteration ==
    /\ [] C11_OtherKeepsDegraded
    /\ [][C11_AtRestoreIteration => C11_IterationEffect]_vars

\* a run with an algoindex other than 1 and 2 went through an iteration with
\* t > 1 and has returned after the reverse at t = 1 on the degraded input
C11_Witness ==
    /\ prog = "generate_image_cold" /\ pc = "done"
    /\ args.algoindex \notin {1, 2} /\ args.num_timesteps >= 3
    /\ Len(calls) = 2 /\ calls[2].fn = "reverse" /\ calls[2].in = <<1>>

\* --------------------------------------------------------------- C12
\* the process calls that consult the network with the timestep tensor
C12_NetworkCalls ==
    {"reverse", "restore_step_algo1", "restore_step_algo2"}

\* a driver run on its own hands the network only indices of
\* network_timesteps for its num_timesteps
C12_DriverPasses ==
    prog \in TrainingLoops \cup {"generate_image", "generate_image_conditional",
                                 "generate_image_cold"}
    => \A k \in 1..Len(calls) :
          calls[k].fn \in C12_NetworkCalls
          => \A j \in 1..Len(calls[k].t) :
                calls[k].t[j] \in network_timesteps(prog, args.num_timesteps)

\* C12: in every experiment of the script, every timestep index a training
\* or sampling driver hands to the network is a row of the time-embedding
\* table of the network the experiment constructed, 0 <= t < n_steps (1000
\* by default), so the lookup self.time_embed(t) does not raise.
C12_TimestepsAreEmbeddingRows ==
    /\ C12_DriverPasses
    /\ prog = "main"
       => \A k \in 1..Len(loc.invoked) :
             \A t \in loc.invoked[k].passed :
                embedding_in_range(<<t>>, loc.invoked[k].n_steps)

\* the ddpm experiment has run both drivers, and they hand the network the
\* first and the last row of its table
C12_Witness ==
    /\ prog = "main" /\ pc = "done" /\ args.experiment_name = "ddpm"
    /\ Len(loc.invoked) = 2
    /\ \A k \in 1..2 : /\ loc.invoked[k].n_steps = 1000
                        /\ {0, 999} \subseteq loc.invoked[k].passed
====
